---- MODULE Spec2Model ----
(***************************************************************************)
(* OPD visit repository and priority queue of the hospital management      *)
(* system: utils/file_io.py (FileIOManager, OPDManager) and the queue      *)
(* projection of ui/opd_ui.py (OPDUI.load_priority_queue, delete_visit).   *)
(*                                                                         *)
(* Strings whose characters matter (record ids, HH:MM:SS times) are tuples *)
(* of one-character strings, so that prefix tests, int() parsing, zero     *)
(* padding and lexicographic comparison are computed and not assumed.      *)
(* A Python dict is a TLA+ record whose DOMAIN is the set of keys present. *)
(***************************************************************************)
EXTENDS Integers, Sequences, FiniteSets, TLC

VARIABLES
    file,           \* data/opd_visits.json: [valid, records]
    now,            \* the wall clock: [day, secs]
    priority_tree,  \* rows of OPDUI.priority_tree, as last loaded
    last,           \* the last operation: [op, id, data, ret, wrote]
    issued,         \* the ids that successful add_visit calls have assigned
    stamps,         \* seconds-of-day that add_visit has formatted as visit_time
    ui,             \* the OPD window: form variables, text areas, current_visit_id,
                    \* the rows of visit_tree, its selection, the three counters
    patients        \* data/patients.json: [valid, records]

vars == <<file, now, priority_tree, last, issued, stamps, ui, patients>>

----------------------------------------------------------------------------
\* Bounds of the model

MaxVisits == 2      \* Spec: add_visit is not taken on a store of this many records
MaxId == 3          \* Spec: add_visit is not taken once the store holds this id number
MaxQueue == 3       \* SpecQueue: records in the stores the queue is computed from
MaxDay == 2         \* calendar days the clock runs through
MaxGenLen == 2      \* SpecGen: records in the stores add_visit is applied to
MaxWindow == 2      \* SpecUI: no check-in and no Save Visit on a store of this many records
MaxMembers == 2     \* SpecRound: members of one JSON object
MaxObjects == 2     \* SpecRound: objects of one JSON text
MaxPatients == 2    \* SpecPatients: no registration on a store of this many patients
MaxDesk == 2        \* SpecDesk: visits in the store the window is opened on

----------------------------------------------------------------------------
\* Characters and strings

Digits == <<"0", "1", "2", "3", "4", "5", "6", "7", "8", "9">>

IsDigit(c) == \E i \in 1..10 : Digits[i] = c

DigitVal(c) == (CHOOSE i \in 1..10 : Digits[i] = c) - 1

\* ord(c) for the characters that occur in ids and times
Ord(c) ==
    IF IsDigit(c) THEN 48 + DigitVal(c)
    ELSE CASE c = ":" -> 58
           [] c = "A" -> 65
           [] c = "D" -> 68
           [] c = "O" -> 79
           [] c = "P" -> 80
           [] c = "T" -> 84
           [] OTHER -> 120

\* Python's s < t on strings: lexicographic by code point, a proper prefix first
RECURSIVE StrLess(_, _)
StrLess(s, t) ==
    IF t = <<>> THEN FALSE
    ELSE IF s = <<>> THEN TRUE
    ELSE IF Ord(Head(s)) # Ord(Head(t)) THEN Ord(Head(s)) < Ord(Head(t))
    ELSE StrLess(Tail(s), Tail(t))

\* s.startswith(p)
startswith(s, p) == Len(s) >= Len(p) /\ SubSeq(s, 1, Len(p)) = p

\* int(s) raises ValueError: here, s is empty or holds a non-digit
IsInt(s) == Len(s) > 0 /\ \A i \in 1..Len(s) : IsDigit(s[i])

RECURSIVE int(_)
int(s) == IF s = <<>> THEN 0 ELSE 10 * int(SubSeq(s, 1, Len(s) - 1)) + DigitVal(s[Len(s)])

RECURSIVE str(_)
str(n) == IF n < 10 THEN <<Digits[n + 1]>> ELSE str(n \div 10) \o <<Digits[(n % 10) + 1]>>

RECURSIVE zfill(_, _)
zfill(s, width) == IF Len(s) >= width THEN s ELSE zfill(<<"0">> \o s, width)

fmt03d_width2(n) == zfill(str(n), 2)

\* f"{n:03d}" and f"{n:02d}"
fmt03d(n) == zfill(str(n), 3)

fmt02d(n) == zfill(str(n), 2)

OPD == <<"O", "P", "D">>

NoId == <<>>

----------------------------------------------------------------------------
\* dicts

dict_get(d, k, default) == IF k \in DOMAIN d THEN d[k] ELSE default

\* d.update(u)
dict_update(d, u) ==
    [k \in (DOMAIN d) \cup (DOMAIN u) |-> IF k \in DOMAIN u THEN u[k] ELSE d[k]]

----------------------------------------------------------------------------
\* FileIOManager

\* a missing file and a file json.load rejects both load as []
load_data(f) == IF f.valid THEN f.records ELSE <<>>

\* save_data: the write goes through ("ok"), or an IOError leaves the file as it
\* was (open failed, "failed") or cut short (the write failed after open, "truncated")
WriteOutcomes == {"ok", "failed", "truncated"}

save_data(f, data, outcome) ==
    IF outcome = "ok" THEN [ret |-> TRUE, file |-> [valid |-> TRUE, records |-> data]]
    ELSE [ret |-> FALSE,
          file |-> IF outcome = "truncated" THEN [valid |-> FALSE, records |-> <<>>] ELSE f]

max(a, b) == IF a >= b THEN a ELSE b

\* the loop body of generate_id for one item: the new value of max_id
generate_id_step(max_id, item, prefix) ==
    IF "id" \notin DOMAIN item THEN max_id
    ELSE LET id_str == item.id
             numeric_part == IF prefix # <<>> /\ startswith(id_str, prefix)
                             THEN SubSeq(id_str, Len(prefix) + 1, Len(id_str))
                             ELSE id_str
         IN  IF IsInt(numeric_part) THEN max(max_id, int(numeric_part)) ELSE max_id

RECURSIVE generate_id_loop(_, _, _)
generate_id_loop(max_id, data, prefix) ==
    IF data = <<>> THEN max_id
    ELSE generate_id_loop(generate_id_step(max_id, Head(data), prefix), Tail(data), prefix)

generate_id_next_same(max_id) == max_id

generate_id_next(max_id) == max_id + 1

generate_id(data, prefix) ==
    IF data = <<>> THEN prefix \o <<"0", "0", "1">>
    ELSE prefix \o fmt03d(generate_id_next(generate_id_loop(0, data, prefix)))

----------------------------------------------------------------------------
\* The clock

\* 09:05:00 and 10:00:00
TimePoints == {32700, 36000}

\* strftime("%H:%M:%S")
strftime_time(secs) ==
    fmt02d(secs \div 3600) \o <<":">> \o fmt02d((secs % 3600) \div 60) \o <<":">> \o fmt02d(secs % 60)

\* strftime("%Y-%m-%d"): dates are only compared for equality, the day number
\* stands for the formatted date
strftime_date(t) == t.day

----------------------------------------------------------------------------
\* OPDManager

None == "<None>"

get_all_visits(f) == load_data(f)

list_append_front(visits, visit_data) == <<visit_data>> \o visits

\* visits.append(visit_data)
list_append(visits, visit_data) == Append(visits, visit_data)

\* the three assignments of add_visit: t1 is the clock read for visit_date, t2 the
\* one for visit_time
stamp_visit(visit_data, id, t1, t2) ==
    dict_update(visit_data,
        [id |-> id, visit_date |-> strftime_date(t1), visit_time |-> strftime_time(t2.secs)])

add_visit(f, visit_data, t1, t2, outcome) ==
    LET visits == get_all_visits(f)
        id == generate_id(visits, OPD)
        stamped == stamp_visit(visit_data, id, t1, t2)
        saved == save_data(f, list_append(visits, stamped), outcome)
    IN  [ret |-> saved.ret, file |-> saved.file, id |-> id, wrote |-> TRUE]

\* the index enumerate() stops at: the first record whose id is visit_id, 0 if none
find_visit(visits, visit_id) ==
    IF \E i \in 1..Len(visits) : visits[i].id = visit_id
    THEN CHOOSE i \in 1..Len(visits) :
             /\ visits[i].id = visit_id
             /\ \A j \in 1..(i - 1) : visits[j].id # visit_id
    ELSE 0

\* a repository that inserts the record it does not find
update_visit_upsert(f, visit_id, updated_data, outcome) ==
    LET visits == get_all_visits(f)
        i == find_visit(visits, visit_id)
        merged == IF i = 0
                  THEN Append(visits, dict_update([id |-> visit_id], updated_data))
                  ELSE [visits EXCEPT ![i] = dict_update(@, updated_data)]
        saved == save_data(f, merged, outcome)
    IN  [ret |-> saved.ret, file |-> saved.file, wrote |-> TRUE]

\* a repository that merges the fields into every record once it has found the id
update_visit_every(f, visit_id, updated_data, outcome) ==
    LET visits == get_all_visits(f)
        i == find_visit(visits, visit_id)
    IN  IF i = 0
        THEN [ret |-> FALSE, file |-> f, wrote |-> FALSE]
        ELSE LET saved == save_data(f,
                              [j \in 1..Len(visits) |-> dict_update(visits[j], updated_data)],
                              outcome)
             IN  [ret |-> saved.ret, file |-> saved.file, wrote |-> TRUE]

\* a repository that stamps the record it updates as one without a time
update_visit_restamp(f, visit_id, updated_data, outcome) ==
    LET visits == get_all_visits(f)
        i == find_visit(visits, visit_id)
    IN  IF i = 0
        THEN [ret |-> FALSE, file |-> f, wrote |-> FALSE]
        ELSE LET saved == save_data(f, [visits EXCEPT ![i] =
                                           dict_update(dict_update(@, updated_data),
                                                       [visit_time |-> <<>>])],
                                    outcome)
             IN  [ret |-> saved.ret, file |-> saved.file, wrote |-> TRUE]

update_visit(f, visit_id, updated_data, outcome) ==
    LET visits == get_all_visits(f)
        i == find_visit(visits, visit_id)
    IN  IF i = 0
        THEN [ret |-> FALSE, file |-> f, wrote |-> FALSE]
        ELSE LET saved == save_data(f, [visits EXCEPT ![i] = dict_update(@, updated_data)],
                                    outcome)
             IN  [ret |-> saved.ret, file |-> saved.file, wrote |-> TRUE]

----------------------------------------------------------------------------
\* OPDUI: delete and the priority queue

\* [v for v in visits if v.get('id') != visit_id]
delete_filter(visits, visit_id) ==
    SelectSeq(visits, LAMBDA v : dict_get(v, "id", NoId) # visit_id)

\* the try block of delete_visit; ret TRUE is the "Visit deleted successfully!" branch
delete_visit(f, visit_id, outcome) ==
    LET saved == save_data(f, delete_filter(get_all_visits(f), visit_id), outcome)
    IN  [ret |-> saved.ret, file |-> saved.file, wrote |-> TRUE]

priority_order_unknown_last(p) ==
    CASE p = "Emergency" -> 1
      [] p = "High" -> 2
      [] p = "Normal" -> 3
      [] p = "Low" -> 4
      [] OTHER -> 5

priority_order(p) ==
    CASE p = "Emergency" -> 1
      [] p = "High" -> 2
      [] p = "Normal" -> 3
      [] p = "Low" -> 4
      [] OTHER -> 3

\* the sort key of a visit
sort_key(x) ==
    [rank |-> priority_order(dict_get(x, "priority", "Normal")),
     time |-> dict_get(x, "visit_time", <<>>)]

key_less_time_first(a, b) ==
    StrLess(a.time, b.time) \/ (a.time = b.time /\ a.rank < b.rank)

\* tuple comparison a < b of two sort keys
key_less(a, b) ==
    a.rank < b.rank \/ (a.rank = b.rank /\ StrLess(a.time, b.time))

\* list.sort(key=...) is stable: each element goes after the elements already
\* placed that are not greater
RECURSIVE insert_sorted_unstable(_, _)
insert_sorted_unstable(sorted, x) ==
    IF sorted = <<>> THEN <<x>>
    ELSE IF ~key_less(sort_key(Head(sorted)), sort_key(x))
         THEN <<x>> \o sorted
         ELSE <<Head(sorted)>> \o insert_sorted_unstable(Tail(sorted), x)

RECURSIVE insert_sorted(_, _)
insert_sorted(sorted, x) ==
    IF sorted = <<>> THEN <<x>>
    ELSE IF key_less(sort_key(x), sort_key(Head(sorted)))
         THEN <<x>> \o sorted
         ELSE <<Head(sorted)>> \o insert_sorted(Tail(sorted), x)

RECURSIVE list_sort(_, _)
list_sort(done, rest) ==
    IF rest = <<>> THEN done ELSE list_sort(insert_sorted(done, Head(rest)), Tail(rest))

is_waiting_today_any_date(v, today) ==
    dict_get(v, "status", None) = "Waiting"

is_waiting_today(v, today) ==
    dict_get(v, "status", None) = "Waiting" /\ dict_get(v, "visit_date", 0) = today

waiting_visits(visits, today) ==
    list_sort(<<>>, SelectSeq(visits, LAMBDA v : is_waiting_today(v, today)))

\* strptime(..., "%H:%M:%S") accepts a string of digits and colons: three fields
\* of one or two digits, an hour below 24, a minute and a second below 60
Colons(s) == {i \in 1..Len(s) : s[i] = ":"}

FirstOf(S) == CHOOSE i \in S : \A j \in S : i <= j

LastOf(S) == CHOOSE i \in S : \A j \in S : j <= i

TimeFields(s) ==
    <<SubSeq(s, 1, FirstOf(Colons(s)) - 1),
      SubSeq(s, FirstOf(Colons(s)) + 1, LastOf(Colons(s)) - 1),
      SubSeq(s, LastOf(Colons(s)) + 1, Len(s))>>

strptime_ok(s) ==
    /\ Cardinality(Colons(s)) = 2
    /\ \A k \in 1..3 : IsInt(TimeFields(s)[k]) /\ Len(TimeFields(s)[k]) <= 2
    /\ int(TimeFields(s)[1]) < 24
    /\ int(TimeFields(s)[2]) < 60
    /\ int(TimeFields(s)[3]) < 60

\* the second of the day strptime returns
strptime_secs(s) ==
    3600 * int(TimeFields(s)[1]) + 60 * int(TimeFields(s)[2]) + int(TimeFields(s)[3])

\* int(wait_time.total_seconds() / 60): int() drops the fraction, towards zero
wait_minutes(seconds) ==
    IF seconds >= 0 THEN seconds \div 60 ELSE -((-seconds) \div 60)

NA == [text |-> "N/A", minutes |-> 0]

\* a wait column that shows 0 min where the time does not parse
wait_str_zero(visit, t) ==
    LET visit_time == dict_get(visit, "visit_time", <<>>)
    IN  IF visit_time # <<>> /\ strptime_ok(visit_time)
        THEN [text |-> "min", minutes |-> wait_minutes(t.secs - strptime_secs(visit_time))]
        ELSE [text |-> "min", minutes |-> 0]

\* the wait column: f"{wait_minutes} min", or "N/A" for an empty visit_time and
\* for one strptime raises on; the date parsed with visit_time is today's, t's
wait_str(visit, t) ==
    LET visit_time == dict_get(visit, "visit_time", <<>>)
    IN  IF visit_time = <<>> THEN NA
        ELSE IF ~strptime_ok(visit_time) THEN NA
        ELSE [text |-> "min", minutes |-> wait_minutes(t.secs - strptime_secs(visit_time))]

\* one row of priority_tree
queue_row(position, visit, t) ==
    [position |-> position,
     patient |-> dict_get(visit, "patient_name", dict_get(visit, "patient_id", "")),
     priority |-> dict_get(visit, "priority", ""),
     chief_complaint |-> dict_get(visit, "chief_complaint", ""),
     wait |-> wait_str(visit, t),
     id |-> dict_get(visit, "id", NoId)]

\* a queue that leaves out the visits stamped later than the clock reads
load_priority_queue_arrived(f, t) ==
    LET arrived == SelectSeq(get_all_visits(f),
                       LAMBDA v : \/ wait_str(v, t) = NA
                                  \/ strptime_secs(v.visit_time) <= t.secs)
        sorted == waiting_visits(arrived, strftime_date(t))
    IN  [position \in 1..Len(sorted) |-> queue_row(position, sorted[position], t)]

load_priority_queue(f, t) ==
    LET sorted == waiting_visits(get_all_visits(f), strftime_date(t))
    IN  [position \in 1..Len(sorted) |-> queue_row(position, sorted[position], t)]

\* len([v for v in visits if v.get('status') == status and v.get('visit_date') == today])
\* counters that look at the status only
count_status_any_date(visits, status, today) ==
    Len(SelectSeq(visits, LAMBDA v : dict_get(v, "status", None) = status))

count_status(visits, status, today) ==
    Len(SelectSeq(visits, LAMBDA v : /\ dict_get(v, "status", None) = status
                                     /\ dict_get(v, "visit_date", 0) = today))

\* a refresh that writes the sorted waiting list back
refresh_queue_saving(f, t1, t2) ==
    [waiting |-> count_status(get_all_visits(f), "Waiting", strftime_date(t1)),
     inprogress |-> count_status(get_all_visits(f), "In Progress", strftime_date(t1)),
     completed |-> count_status(get_all_visits(f), "Completed", strftime_date(t1)),
     priority_tree |-> load_priority_queue(f, t2),
     file |-> [valid |-> TRUE,
               records |-> waiting_visits(get_all_visits(f), strftime_date(t2))]]

\* refresh_queue: the counters from the clock read t1, the queue from the read t2
\* of load_priority_queue; file is the store file as the handler leaves it
refresh_queue(f, t1, t2) ==
    [waiting |-> count_status(get_all_visits(f), "Waiting", strftime_date(t1)),
     inprogress |-> count_status(get_all_visits(f), "In Progress", strftime_date(t1)),
     completed |-> count_status(get_all_visits(f), "Completed", strftime_date(t1)),
     priority_tree |-> load_priority_queue(f, t2),
     file |-> f]

----------------------------------------------------------------------------
\* Inputs

Priorities == {"Emergency", "High", "Normal", "Low"}

\* the dict quick_checkin hands to add_visit
QuickCheckinData(priorities) ==
    [patient_id : {"PAT001"}, visit_type : {"OPD Consultation"}, priority : priorities,
     status : {"Waiting"}, chief_complaint : {"fever"}]

\* the dict get_visit_form_data builds for save_visit and update_visit
FormData(statuses, priorities) ==
    [patient_id : {"PAT002"}, patient_name : {"Asha"}, doctor_id : {"DOC001"},
     doctor_name : {"Rao"}, visit_type : {"Follow-up"}, priority : priorities,
     status : statuses, followup_date : {""}, payment_amount : {"100"},
     chief_complaint : {"cough"}, diagnosis : {"flu"}, treatment : {""},
     prescription : {""}, notes : {""}]

AddInputs == QuickCheckinData({"Normal"}) \cup FormData({"In Progress"}, {"Low"})

\* what mark_visit_complete and the form's update_visit hand to
\* OPDManager.update_visit: one key, and every key of the form
StatusUpdates == {[status |-> "Completed"]}

UpdateInputs == StatusUpdates \cup FormData({"Waiting"}, {"High"})

\* ids a caller may name: those add_visit can have assigned, and one it cannot
IdInputs == {OPD \o fmt03d(n) : n \in 1..(MaxId + 1)}

NoData == [none |-> ""]

\* the OPD window has not been opened
NoWindow == [open |-> FALSE]

\* the StringVars and text areas of the visit form as create_visit_form_tab
\* leaves them
FormDefaults ==
    [patient_id |-> <<>>, doctor_id |-> <<>>, visit_type |-> "OPD Consultation",
     priority |-> "Normal", status |-> "Waiting", followup_date |-> "",
     payment_amount |-> "", chief_complaint |-> "", diagnosis |-> "",
     treatment |-> "", prescription |-> "", notes |-> ""]

\* load_visits: one row per stored visit, in storage order; of a row the handlers
\* read the id column
load_visits(f) ==
    [i \in 1..Len(get_all_visits(f)) |-> dict_get(get_all_visits(f)[i], "id", NoId)]

counters(r) == [waiting |-> r.waiting, inprogress |-> r.inprogress, completed |-> r.completed]

\* the window after OPDUI.__init__ at time t: create_queue_tab ends with
\* refresh_queue, __init__ with load_visits
OPDUI(f, t) ==
    [form |-> FormDefaults, current_visit_id |-> NoId, visit_tree |-> load_visits(f),
     counts |-> counters(refresh_queue(f, t, t))]

\* The texts of the patient and doctor comboboxes are tuples of tokens: an id or
\* a name is one token, a blank and a dash are one token each.
Sep == <<" ", "-", " ">>

\* s.strip()
RECURSIVE strip(_)
strip(s) ==
    IF s = <<>> THEN s
    ELSE IF Head(s) = " " THEN strip(Tail(s))
    ELSE IF s[Len(s)] = " " THEN strip(SubSeq(s, 1, Len(s) - 1))
    ELSE s

\* s.find(" - ") + 1: the first position " - " starts at, 0 if there is none
find_sep(s) ==
    LET at == {i \in 1..Len(s) : i + 2 <= Len(s) /\ SubSeq(s, i, i + 2) = Sep}
    IN  IF at = {} THEN 0 ELSE FirstOf(at)

\* s.split(" - ")[0] and s.split(" - ")[1], for s that holds " - "
split_0(s) == SubSeq(s, 1, find_sep(s) - 1)

split_1(s) ==
    LET rest == SubSeq(s, find_sep(s) + 3, Len(s))
    IN  IF find_sep(rest) = 0 THEN rest ELSE SubSeq(rest, 1, find_sep(rest) - 1)

\* the value get_visit_form_data stores for patient_id and doctor_id
combo_id(text) ==
    IF strip(text) # <<>> /\ find_sep(strip(text)) # 0
    THEN split_0(strip(text))
    ELSE strip(text)

\* validate_visit_form; the model types no follow-up date and no amount
validate_visit_form(form) ==
    /\ strip(form.patient_id) # <<>>
    /\ form.chief_complaint # ""
    /\ form.followup_date = ""
    /\ form.payment_amount = ""

\* get_visit_form_data: every StringVar and text area stripped (the texts other
\* than the two comboboxes' have no blank at either end), the name keys only
\* for a combobox text that holds " - "
get_visit_form_data(form) ==
    dict_update(
        dict_update(
            [patient_id |-> combo_id(form.patient_id),
             doctor_id |-> combo_id(form.doctor_id),
             visit_type |-> form.visit_type, priority |-> form.priority,
             status |-> form.status, followup_date |-> form.followup_date,
             payment_amount |-> form.payment_amount,
             chief_complaint |-> form.chief_complaint, diagnosis |-> form.diagnosis,
             treatment |-> form.treatment, prescription |-> form.prescription,
             notes |-> form.notes],
            IF find_sep(form.patient_id) # 0
            THEN [patient_name |-> split_1(form.patient_id)] ELSE <<>>),
        IF find_sep(form.doctor_id) # 0
        THEN [doctor_name |-> split_1(form.doctor_id)] ELSE <<>>)

\* clear_visit_form: every StringVar set to "", every text area emptied
clear_visit_form(form) ==
    [k \in DOMAIN form |-> IF k \in {"patient_id", "doctor_id"} THEN <<>> ELSE ""]

\* the form as edit_visit fills it from a stored visit
edit_visit(visit) ==
    [patient_id |-> dict_get(visit, "patient_id", <<>>) \o Sep
                        \o dict_get(visit, "patient_name", <<>>),
     doctor_id |-> dict_get(visit, "doctor_id", <<>>) \o Sep
                        \o dict_get(visit, "doctor_name", <<>>),
     visit_type |-> dict_get(visit, "visit_type", ""),
     priority |-> dict_get(visit, "priority", ""),
     status |-> dict_get(visit, "status", ""),
     followup_date |-> dict_get(visit, "followup_date", ""),
     payment_amount |-> dict_get(visit, "payment_amount", ""),
     chief_complaint |-> dict_get(visit, "chief_complaint", ""),
     diagnosis |-> dict_get(visit, "diagnosis", ""),
     treatment |-> dict_get(visit, "treatment", ""),
     prescription |-> dict_get(visit, "prescription", ""),
     notes |-> dict_get(visit, "notes", "")]

\* the dict quick_checkin builds from the selected patient's text, the priority
\* combobox and the complaint typed
quick_checkin_data(selected_patient, priority, chief_complaint) ==
    [patient_id |-> split_0(selected_patient), visit_type |-> "OPD Consultation",
     priority |-> priority, status |-> "Waiting", chief_complaint |-> chief_complaint]

----------------------------------------------------------------------------
\* The state machine

EmptyFile == [valid |-> TRUE, records |-> <<>>]

\* data/patients.json in the specifications that register no patient
NoPatients == EmptyFile

Init ==
    /\ file = EmptyFile
    /\ now = [day |-> 1, secs |-> 32700]
    /\ priority_tree = <<>>
    /\ last = [op |-> "init", id |-> NoId, data |-> NoData, ret |-> TRUE, wrote |-> FALSE]
    /\ issued = {}
    /\ stamps = {}
    /\ ui = NoWindow
    /\ patients = NoPatients

\* OPDManager.add_visit(visit_data); the first clock read returns now, reads are
\* the values the second one can return
AddVisit(inputs, reads) ==
    \E visit_data \in inputs, outcome \in WriteOutcomes, t2 \in reads :
        LET r == add_visit(file, visit_data, now, t2, outcome)
        IN  /\ file' = r.file
            /\ now' = t2
            /\ last' = [op |-> "add_visit", id |-> r.id, data |-> visit_data,
                        ret |-> r.ret, wrote |-> r.wrote]
            /\ issued' = IF r.ret THEN issued \cup {r.id} ELSE issued
            /\ stamps' = IF r.ret THEN stamps \cup {t2.secs} ELSE stamps

\* OPDManager.update_visit(visit_id, updated_data)
UpdateVisit(ids, inputs) ==
    \E visit_id \in ids, updated_data \in inputs, outcome \in WriteOutcomes :
        LET r == update_visit(file, visit_id, updated_data, outcome)
        IN  /\ file' = r.file
            /\ last' = [op |-> "update_visit", id |-> visit_id, data |-> updated_data,
                        ret |-> r.ret, wrote |-> r.wrote]
            /\ UNCHANGED <<now, issued, stamps>>

\* the try block of OPDUI.delete_visit, for a confirmed delete of visit_id
DeleteVisit(ids) ==
    \E visit_id \in ids, outcome \in WriteOutcomes :
        LET r == delete_visit(file, visit_id, outcome)
        IN  /\ file' = r.file
            /\ last' = [op |-> "delete_visit", id |-> visit_id, data |-> NoData,
                        ret |-> r.ret, wrote |-> r.wrote]
            /\ UNCHANGED <<now, issued, stamps>>

\* the second clock read of an add_visit that returns within the second
SameInstant == {now}

\* The repository: add_visit, update_visit and the delete of OPDUI, called with
\* any id and with the dicts the OPD window passes
StoreAdd ==
    /\ Len(get_all_visits(file)) < MaxVisits
    /\ generate_id_loop(0, get_all_visits(file), OPD) < MaxId
    /\ AddVisit(AddInputs, SameInstant)
    /\ UNCHANGED <<priority_tree, ui, patients>>

StoreUpdate == UpdateVisit(IdInputs, UpdateInputs) /\ UNCHANGED <<priority_tree, ui, patients>>

StoreDelete == DeleteVisit(IdInputs) /\ UNCHANGED <<priority_tree, ui, patients>>

Next == StoreAdd \/ StoreUpdate \/ StoreDelete

Spec == Init /\ [][Next]_vars

----------------------------------------------------------------------------
\* add_visit on stores whose ids were not all written by add_visit

A1 == <<"A", "1">>

\* OPD001, OPD002, OPD010, OPD999, OPD, OPDA1, PAT005, 7
GenIds ==
    {OPD \o <<"0", "0", "1">>, OPD \o <<"0", "0", "2">>, OPD \o <<"0", "1", "0">>,
     OPD \o <<"9", "9", "9">>, OPD, OPD \o A1,
     <<"P", "A", "T", "0", "0", "5">>, <<"7">>}

\* a record with each of these ids, and one without the key 'id'
GenRecords == {[id |-> i, status |-> "Waiting"] : i \in GenIds} \cup {[status |-> "Waiting"]}

GenStores == UNION {[1..n -> GenRecords] : n \in 0..MaxGenLen}

InitGen ==
    /\ file \in {[valid |-> TRUE, records |-> recs] : recs \in GenStores}
    /\ now = [day |-> 1, secs |-> 32700]
    /\ priority_tree = <<>>
    /\ last = [op |-> "init", id |-> NoId, data |-> NoData, ret |-> TRUE, wrote |-> FALSE]
    /\ issued = {}
    /\ stamps = {}
    /\ ui = NoWindow
    /\ patients = NoPatients

GenAdd ==
    /\ last.op = "init"
    /\ AddVisit(QuickCheckinData({"Normal"}), SameInstant)
    /\ UNCHANGED <<priority_tree, ui, patients>>

NextGen == GenAdd

SpecGen == InitGen /\ [][NextGen]_vars

----------------------------------------------------------------------------
\* load_priority_queue on the stores that check-ins and status changes leave. The
\* stamps come from datetime.now(), the wall clock, which can be set back between
\* two check-ins: the times of a store need not ascend in storage order.

\* what a visit of the store went through: the priority it was checked in with, the
\* day and the second of the day add_visit stamped, and its status since
QueueVisits ==
    [priority : Priorities, secs : TimePoints, state : {<<1, "Waiting">>}]
    \cup [priority : {"Emergency"}, secs : {32700},
          state : {<<1, "Completed">>, <<2, "Waiting">>}]

queue_record(c, n) ==
    dict_update(
        stamp_visit([patient_id |-> "PAT001", visit_type |-> "OPD Consultation",
                     priority |-> c.priority, status |-> "Waiting",
                     chief_complaint |-> "fever"],
                    OPD \o fmt03d(n), [day |-> c.state[1], secs |-> c.secs],
                    [day |-> c.state[1], secs |-> c.secs]),
        [status |-> c.state[2]])

QueueStores == UNION {[1..n -> QueueVisits] : n \in 0..MaxQueue}

InitQueue ==
    /\ \E cs \in QueueStores :
          /\ file = [valid |-> TRUE, records |-> [n \in DOMAIN cs |-> queue_record(cs[n], n)]]
          /\ stamps = {cs[n].secs : n \in DOMAIN cs}
          /\ issued = {OPD \o fmt03d(n) : n \in DOMAIN cs}
    /\ now \in [day : 1..MaxDay, secs : {36000}]
    /\ priority_tree = <<>>
    /\ last = [op |-> "init", id |-> NoId, data |-> NoData, ret |-> TRUE, wrote |-> FALSE]
    /\ ui = NoWindow
    /\ patients = NoPatients

LoadPriorityQueue ==
    /\ priority_tree' = load_priority_queue(file, now)
    /\ last' = [op |-> "load_priority_queue", id |-> NoId, data |-> NoData,
                ret |-> TRUE, wrote |-> FALSE]
    /\ UNCHANGED <<file, now, issued, stamps, ui, patients>>

NextQueue == LoadPriorityQueue

SpecQueue == InitQueue /\ [][NextQueue]_vars

----------------------------------------------------------------------------
\* The Refresh Queue button on stores that hold what the window never writes: a
\* priority outside the four, no priority, a visit_time that is missing, empty or
\* not a time; and on visits stamped later than the clock reads now. The clock
\* advances between refreshes, within the day and past midnight.

T0945 == strftime_time(35100)

T100030 == strftime_time(36030)

T999999 == <<"9", "9", ":", "9", "9", ":", "9", "9">>

Missing == "<missing>"

MissingTime == <<"missing">>

\* the priority and the visit_time of a waiting visit of day 1
WaitVisits ==
    [priority : {"Normal", "", Missing}, visit_time : {T0945}]
    \cup [priority : {"Normal", "Urgent", "High"}, visit_time : {T100030}]
    \cup [priority : {"Low"}, visit_time : {T0945}]
    \cup [priority : {"Normal"}, visit_time : {MissingTime, <<>>, T999999}]

wait_record(c, n) ==
    dict_update(
        dict_update([id |-> OPD \o fmt03d(n), patient_id |-> "PAT001",
                     visit_type |-> "OPD Consultation", status |-> "Waiting",
                     chief_complaint |-> "fever", visit_date |-> 1],
                    IF c.priority = Missing THEN <<>> ELSE [priority |-> c.priority]),
        IF c.visit_time = MissingTime THEN <<>> ELSE [visit_time |-> c.visit_time])

WaitStores == UNION {[1..n -> WaitVisits] : n \in 0..MaxQueue}

\* 10:00:00 and 10:01:30
ClockPoints == {36000, 36090}

InitWait ==
    /\ \E cs \in WaitStores :
          /\ file = [valid |-> TRUE, records |-> [n \in DOMAIN cs |-> wait_record(cs[n], n)]]
          /\ issued = {OPD \o fmt03d(n) : n \in DOMAIN cs}
    /\ stamps = {}
    /\ now = [day |-> 1, secs |-> 36000]
    /\ ui = OPDUI(file, now)
    /\ patients = NoPatients
    /\ priority_tree = refresh_queue(file, now, now).priority_tree
    /\ last = [op |-> "init", id |-> NoId, data |-> [today |-> strftime_date(now)],
               ret |-> TRUE, wrote |-> FALSE]

\* the Refresh Queue button; last.data keeps the date the handler read
RefreshQueue ==
    LET r == refresh_queue(file, now, now)
    IN  /\ file' = r.file
        /\ priority_tree' = r.priority_tree
        /\ ui' = [ui EXCEPT !.counts = counters(r)]
        /\ last' = [op |-> "refresh_queue", id |-> NoId,
                    data |-> [today |-> strftime_date(now)], ret |-> TRUE, wrote |-> FALSE]
        /\ UNCHANGED <<now, issued, stamps, patients>>

\* time passes: to the next clock point of the day, or to the next day
Tick ==
    /\ \E t \in [day : 1..MaxDay, secs : ClockPoints] :
          /\ \/ t.day = now.day /\ t.secs > now.secs
             \/ t.day = now.day + 1 /\ t.secs = 36000
          /\ now' = t
    /\ last' = [last EXCEPT !.op = "tick"]
    /\ UNCHANGED <<file, priority_tree, issued, stamps, ui, patients>>

NextWait == RefreshQueue \/ Tick

SpecWait == InitWait /\ [][NextWait]_vars

----------------------------------------------------------------------------
\* The OPD window: the buttons of its tabs, each handler run to its end. A handler
\* that only shows a warning and returns is not a step.

\* the text on_checkin_patient_select puts into selected_patient_var
SelectedPatient == <<"PAT001", " ", "-", " ", "Ravi">>

\* the status combobox offers Waiting, In Progress, Completed and Cancelled; the
\* model picks Waiting, the other values reach the form through edit_visit
StatusChoices == {"Waiting"}

InitUI ==
    /\ file = EmptyFile
    /\ now = [day |-> 1, secs |-> 32700]
    /\ priority_tree = <<>>
    /\ last = [op |-> "init", id |-> NoId, data |-> NoData, ret |-> TRUE, wrote |-> FALSE]
    /\ issued = {}
    /\ stamps = {}
    /\ ui = OPDUI(file, now)
    /\ patients = NoPatients

\* handlers that leave the queue as it was
\*
\* what every handler does after the repository call returned r: on success the
\* form and current_visit_id as the handler leaves them, then load_visits and
\* refresh_queue; on failure an error box
AfterCall_stale(r, form_after, current_after) ==
    /\ file' = r.file
    /\ IF r.ret
       THEN /\ ui' = [form |-> form_after, current_visit_id |-> current_after,
                      visit_tree |-> load_visits(r.file),
                      counts |-> counters(refresh_queue(r.file, now, now))]
            /\ UNCHANGED priority_tree
       ELSE UNCHANGED <<ui, priority_tree>>

AfterCall(r, form_after, current_after) ==
    /\ file' = r.file
    /\ IF r.ret
       THEN /\ ui' = [form |-> form_after, current_visit_id |-> current_after,
                      visit_tree |-> load_visits(r.file),
                      counts |-> counters(refresh_queue(r.file, now, now))]
            /\ priority_tree' = refresh_queue(r.file, now, now).priority_tree
       ELSE UNCHANGED <<ui, priority_tree>>

\* a handler that ends in add_visit
AfterAdd(op, visit_data, r, form_after, current_after) ==
    /\ AfterCall(r, form_after, current_after)
    /\ last' = [op |-> op, id |-> r.id, data |-> NoData, ret |-> r.ret, wrote |-> r.wrote]
    /\ issued' = IF r.ret THEN issued \cup {r.id} ELSE issued
    /\ stamps' = IF r.ret THEN stamps \cup {now.secs} ELSE stamps
    /\ UNCHANGED <<now, patients>>

\* a handler that ends in update_visit
AfterUpdate(op, visit_id, updated_data, r, form_after, current_after) ==
    /\ AfterCall(r, form_after, current_after)
    /\ last' = [op |-> op, id |-> visit_id, data |-> NoData,
                ret |-> r.ret, wrote |-> r.wrote]
    /\ UNCHANGED <<now, issued, stamps, patients>>

CanAdd ==
    /\ Len(get_all_visits(file)) < MaxWindow
    /\ generate_id_loop(0, get_all_visits(file), OPD) < MaxId

UIQuickCheckin ==
    /\ CanAdd
    /\ \E outcome \in WriteOutcomes :
          LET visit_data == quick_checkin_data(SelectedPatient, "Normal", "fever")
          IN  AfterAdd("quick_checkin", visit_data,
                       add_visit(file, visit_data, now, now, outcome),
                       ui.form, ui.current_visit_id)

UISaveVisit ==
    /\ CanAdd
    /\ validate_visit_form(ui.form)
    /\ \E outcome \in WriteOutcomes :
          LET visit_data == get_visit_form_data(ui.form)
          IN  AfterAdd("save_visit", visit_data,
                       add_visit(file, visit_data, now, now, outcome),
                       clear_visit_form(ui.form), NoId)

UIUpdateVisit ==
    /\ ui.current_visit_id # NoId
    /\ validate_visit_form(ui.form)
    /\ \E outcome \in WriteOutcomes :
          LET visit_data == get_visit_form_data(ui.form)
          IN  AfterUpdate("form_update_visit", ui.current_visit_id, visit_data,
                          update_visit(file, ui.current_visit_id, visit_data, outcome),
                          clear_visit_form(ui.form), NoId)

UIClearVisitForm ==
    /\ ui' = [ui EXCEPT !.form = clear_visit_form(ui.form), !.current_visit_id = NoId]
    /\ last' = [op |-> "clear_visit_form", id |-> NoId, data |-> NoData,
                ret |-> TRUE, wrote |-> FALSE]
    /\ UNCHANGED <<file, now, priority_tree, issued, stamps, patients>>

\* a choice in the status combobox of the form
UISelectStatus ==
    /\ \E status \in StatusChoices : ui' = [ui EXCEPT !.form.status = status]
    /\ last' = [op |-> "select_status", id |-> NoId, data |-> NoData,
                ret |-> TRUE, wrote |-> FALSE]
    /\ UNCHANGED <<file, now, priority_tree, issued, stamps, patients>>

\* a double click on a row of visit_tree, or Edit Selected on it
UIEditVisit ==
    \E i \in DOMAIN ui.visit_tree :
        LET visit_id == ui.visit_tree[i]
            at == find_visit(get_all_visits(file), visit_id)
        IN  /\ ui' = IF at = 0 THEN ui
                     ELSE [ui EXCEPT !.form = edit_visit(get_all_visits(file)[at]),
                                     !.current_visit_id = visit_id]
            /\ last' = [op |-> "edit_visit", id |-> visit_id, data |-> NoData,
                        ret |-> at # 0, wrote |-> FALSE]
            /\ UNCHANGED <<file, now, priority_tree, issued, stamps, patients>>

\* Mark Complete and Cancel Visit (confirmed) on a row of visit_tree
UIMarkVisitComplete ==
    \E i \in DOMAIN ui.visit_tree, outcome \in WriteOutcomes :
        AfterUpdate("mark_visit_complete", ui.visit_tree[i], [status |-> "Completed"],
                    update_visit(file, ui.visit_tree[i], [status |-> "Completed"], outcome),
                    ui.form, ui.current_visit_id)

UICancelVisit ==
    \E i \in DOMAIN ui.visit_tree, outcome \in WriteOutcomes :
        AfterUpdate("cancel_visit", ui.visit_tree[i], [status |-> "Cancelled"],
                    update_visit(file, ui.visit_tree[i], [status |-> "Cancelled"], outcome),
                    ui.form, ui.current_visit_id)

\* Move to In Progress on a row of priority_tree
UIMoveToInProgress ==
    \E j \in DOMAIN priority_tree, outcome \in WriteOutcomes :
        AfterUpdate("move_to_inprogress", priority_tree[j].id, [status |-> "In Progress"],
                    update_visit(file, priority_tree[j].id, [status |-> "In Progress"], outcome),
                    ui.form, ui.current_visit_id)

NextUI ==
    \/ UIQuickCheckin
    \/ UISaveVisit
    \/ UIUpdateVisit
    \/ UIClearVisitForm
    \/ UISelectStatus
    \/ UIEditVisit
    \/ UIMarkVisitComplete
    \/ UICancelVisit
    \/ UIMoveToInProgress

SpecUI == InitUI /\ [][NextUI]_vars

----------------------------------------------------------------------------
\* The OPD window opened on a store of earlier check-ins: the handlers that
\* change or remove a stored visit

\* Delete Visit (confirmed) on a row of visit_tree
UIDeleteVisit ==
    \E i \in DOMAIN ui.visit_tree, outcome \in WriteOutcomes :
        /\ AfterCall(delete_visit(file, ui.visit_tree[i], outcome),
                     clear_visit_form(ui.form), NoId)
        /\ last' = [op |-> "delete_visit", id |-> ui.visit_tree[i], data |-> NoData,
                    ret |-> delete_visit(file, ui.visit_tree[i], outcome).ret,
                    wrote |-> TRUE]
        /\ UNCHANGED <<now, issued, stamps, patients>>

\* the form with a patient and a doctor chosen in the comboboxes and a complaint
\* typed
FilledForm ==
    [FormDefaults EXCEPT !.patient_id = <<"PAT002", " ", "-", " ", "Asha">>,
                         !.doctor_id = <<"DOC001", " ", "-", " ", "Rao">>,
                         !.chief_complaint = "cough"]

\* what an earlier Save Visit handed to add_visit
DeskData ==
    {get_visit_form_data(FilledForm)}

\* a visit add_visit stored at 09:00:00 of day 1, with the status later handlers
\* may have given it
desk_record(c, n) ==
    dict_update(stamp_visit(c.data, OPD \o fmt03d(n), [day |-> 1, secs |-> 32400],
                            [day |-> 1, secs |-> 32400]),
                [status |-> c.status])

DeskStores ==
    UNION {[1..n -> [data : DeskData,
                     status : {"Waiting", "In Progress", "Completed", "Cancelled"}]] :
              n \in 0..MaxDesk}

InitDesk ==
    /\ \E cs \in DeskStores :
          /\ file = [valid |-> TRUE, records |-> [n \in DOMAIN cs |-> desk_record(cs[n], n)]]
          /\ issued = {OPD \o fmt03d(n) : n \in DOMAIN cs}
    /\ stamps = {32400}
    /\ now = [day |-> 1, secs |-> 32700]
    /\ ui = OPDUI(file, now)
    /\ patients = NoPatients
    /\ priority_tree = refresh_queue(file, now, now).priority_tree
    /\ last = [op |-> "init", id |-> NoId, data |-> NoData, ret |-> TRUE, wrote |-> FALSE]

NextDesk ==
    \/ UIUpdateVisit
    \/ UIClearVisitForm
    \/ UISelectStatus
    \/ UIEditVisit
    \/ UIMarkVisitComplete
    \/ UICancelVisit
    \/ UIMoveToInProgress
    \/ UIDeleteVisit

SpecDesk == InitDesk /\ [][NextDesk]_vars

----------------------------------------------------------------------------
\* The JSON text of a store: load_data and save_data on the text itself
\*
\* A text is the sequence of its objects, an object the sequence of its members
\* as they are written, a member a key literal and a value token. A literal is
\* what stands between the two quotes of a JSON string, character by character;
\* an escape \uXXXX is the backslash followed by one element "uXXXX". A Python
\* dict is the sequence of its items in insertion order. "e'" stands for a
\* character outside ASCII (U+00E9).

Quote == "\""

Backslash == "\\"

Newline == "\n"

\* what the decoder makes of the character after a backslash
Unescaped ==
    [c \in {Quote, Backslash, "n", "u00e9"} |->
        IF c = "n" THEN Newline ELSE IF c = "u00e9" THEN "e'" ELSE c]

\* json.decoder scanstring (strict): a bare quote ends the string before the
\* literal does, a control character and an unknown escape are errors
RECURSIVE scanstring(_)
scanstring(lit) ==
    IF lit = <<>> THEN [ok |-> TRUE, s |-> <<>>]
    ELSE IF Head(lit) = Backslash
    THEN IF Len(lit) < 2 \/ lit[2] \notin DOMAIN Unescaped
         THEN [ok |-> FALSE, s |-> <<>>]
         ELSE LET rest == scanstring(SubSeq(lit, 3, Len(lit)))
              IN  [ok |-> rest.ok, s |-> <<Unescaped[lit[2]]>> \o rest.s]
    ELSE IF Head(lit) \in {Quote, Newline} THEN [ok |-> FALSE, s |-> <<>>]
    ELSE LET rest == scanstring(Tail(lit))
         IN  [ok |-> rest.ok, s |-> <<Head(lit)>> \o rest.s]

\* an encoder that writes every character as it is
encode_basestring_raw(s) == s

\* json.encoder encode_basestring (ensure_ascii=False): quote, backslash and
\* control characters escaped, every other character as it is
RECURSIVE encode_basestring(_)
encode_basestring(s) ==
    IF s = <<>> THEN <<>>
    ELSE (IF Head(s) = Quote THEN <<Backslash, Quote>>
          ELSE IF Head(s) = Backslash THEN <<Backslash, Backslash>>
          ELSE IF Head(s) = Newline THEN <<Backslash, "n">>
          ELSE <<Head(s)>>) \o encode_basestring(Tail(s))

\* Python values: str, int, float (integral ones), bool and None
PyStr(s) == [t |-> "str", s |-> s, n |-> 0]

PyInt(n) == [t |-> "int", s |-> <<>>, n |-> n]

PyFloat(n) == [t |-> "float", s |-> <<>>, n |-> n]

PyWord(w) == [t |-> w, s |-> <<>>, n |-> 0]

\* int() of a JSON integer
json_int(lit) == IF Head(lit) = "-" THEN 0 - int(Tail(lit)) ELSE int(lit)

\* the value of a token; a number with a fraction is a float
json_value(token) ==
    IF token.k = "string"
    THEN [ok |-> scanstring(token.lit).ok, v |-> PyStr(scanstring(token.lit).s)]
    ELSE IF token.k = "word" THEN [ok |-> TRUE, v |-> PyWord(token.lit[1])]
    ELSE IF \E i \in 1..Len(token.lit) : token.lit[i] = "."
    THEN [ok |-> TRUE,
          v |-> PyFloat(json_int(SubSeq(token.lit, 1, FirstOf({i \in 1..Len(token.lit) :
                                                         token.lit[i] = "."}) - 1)))]
    ELSE [ok |-> TRUE, v |-> PyInt(json_int(token.lit))]

\* int.__repr__ and float.__repr__ of an integral float
number_repr(v) ==
    (IF v.n < 0 THEN <<"-">> \o str(0 - v.n) ELSE str(v.n))
        \o (IF v.t = "float" THEN <<".", "0">> ELSE <<>>)

\* the token json.dump writes for a value
json_token(v) ==
    IF v.t = "str" THEN [k |-> "string", lit |-> encode_basestring(v.s)]
    ELSE IF v.t \in {"int", "float"} THEN [k |-> "number", lit |-> number_repr(v)]
    ELSE [k |-> "word", lit |-> <<v.t>>]

\* d[key] = value on a dict: a key it has keeps its place
dict_setitem(d, key, value) ==
    IF \E i \in 1..Len(d) : d[i].key = key
    THEN [i \in 1..Len(d) |-> IF d[i].key = key THEN [key |-> key, value |-> value] ELSE d[i]]
    ELSE Append(d, [key |-> key, value |-> value])

\* the dict json.load builds from the members of one object
RECURSIVE json_object(_, _)
json_object(d, members) ==
    IF members = <<>> THEN d
    ELSE json_object(dict_setitem(d, scanstring(Head(members).key).s,
                                  json_value(Head(members).value).v),
                     Tail(members))

\* json.load: a JSONDecodeError (ok FALSE) for a literal it cannot scan
json_load(text) ==
    [ok |-> \A i \in 1..Len(text) : \A j \in 1..Len(text[i]) :
                /\ scanstring(text[i][j].key).ok
                /\ json_value(text[i][j].value).ok,
     value |-> [i \in 1..Len(text) |-> json_object(<<>>, text[i])]]

\* json.dump(data, indent=2, ensure_ascii=False): the items of each dict in order
json_dump(data) ==
    [i \in 1..Len(data) |->
        [j \in 1..Len(data[i]) |->
            [key |-> encode_basestring(data[i][j].key),
             value |-> json_token(data[i][j].value)]]]

\* load_data of a file [valid, text]: valid is FALSE for a missing file and for a
\* text cut short
load_data_json(f) ==
    IF f.valid /\ json_load(f.text).ok THEN json_load(f.text).value ELSE <<>>

\* save_data of a list load_data returned
save_data_json(f, data, outcome) ==
    IF outcome = "ok" THEN [ret |-> TRUE, file |-> [valid |-> TRUE, text |-> json_dump(data)]]
    ELSE [ret |-> FALSE,
          file |-> IF outcome = "truncated" THEN [valid |-> FALSE, text |-> <<>>] ELSE f]

\* string literals: a character outside ASCII raw and escaped, the escapes of
\* quote, backslash and newline, and a raw newline, which the decoder rejects
StringLits ==
    {<<"e'">>, <<Backslash, "u00e9">>, <<Backslash, Quote, "a">>,
     <<Backslash, Backslash>>, <<Backslash, "n">>, <<Newline>>}

NumberLits == {<<"-", "0">>, <<"-", "1", "2">>, <<"7", ".", "0">>}

WordLits == {<<"null">>}

Tokens ==
    [k : {"string"}, lit : StringLits] \cup [k : {"number"}, lit : NumberLits]
        \cup [k : {"word"}, lit : WordLits]

KeyLits == {<<"i", "d">>, <<Backslash, "u00e9">>, <<"e'">>}

Members == [key : KeyLits, value : Tokens]

\* objects of up to MaxMembers members, keys written twice included
Objects == UNION {[1..n -> Members] : n \in 0..MaxMembers}

\* lists of up to MaxObjects objects; the longer ones of objects {"id": value}
Texts ==
    {<<>>} \cup {<<o>> : o \in Objects}
        \cup UNION {[1..n -> [1..1 -> [key : {<<"i", "d">>}, value : Tokens]]] :
                        n \in 2..MaxObjects}

InitRound ==
    /\ file \in [valid : {TRUE}, text : Texts]
    /\ now = [day |-> 1, secs |-> 32700]
    /\ priority_tree = <<>>
    /\ last = [op |-> "init", id |-> NoId, data |-> NoData, ret |-> TRUE, wrote |-> FALSE]
    /\ issued = {}
    /\ stamps = {}
    /\ ui = NoWindow
    /\ patients = NoPatients

\* save_data(filename, load_data(filename)); last.data keeps the text read
SaveLoaded ==
    \E outcome \in WriteOutcomes :
        LET r == save_data_json(file, load_data_json(file), outcome)
        IN  /\ file' = r.file
            /\ last' = [op |-> "save_data", id |-> NoId, data |-> [text |-> file.text],
                        ret |-> r.ret, wrote |-> TRUE]
            /\ UNCHANGED <<now, priority_tree, issued, stamps, ui, patients>>

NextRound == SaveLoaded

SpecRound == InitRound /\ [][NextRound]_vars

----------------------------------------------------------------------------
\* PatientManager, and the OPD window's check-in of a registered patient

PAT == <<"P", "A", "T">>

PyNone == [none |-> "None"]

\* PatientManager.add_patient; registration_date is the date the clock reads
add_patient(f, patient_data, t, outcome) ==
    LET stored == load_data(f)
        id == generate_id(stored, PAT)
        stamped == dict_update(patient_data,
                       [id |-> id, registration_date |-> strftime_date(t)])
        saved == save_data(f, list_append(stored, stamped), outcome)
    IN  [ret |-> saved.ret, file |-> saved.file, id |-> id, wrote |-> TRUE]

\* PatientManager.delete_patient
delete_patient(f, patient_id, outcome) ==
    LET kept == SelectSeq(load_data(f), LAMBDA q : q.id # patient_id)
        saved == save_data(f, kept, outcome)
    IN  [ret |-> saved.ret, file |-> saved.file, wrote |-> TRUE]

\* PatientManager.get_patient_by_id
get_patient_by_id(f, patient_id) ==
    LET stored == load_data(f)
        found == {i \in 1..Len(stored) : stored[i].id = patient_id}
    IN  IF found = {} THEN PyNone ELSE stored[FirstOf(found)]

\* OPDManager.get_visits_by_patient
get_visits_by_patient(f, patient_id) ==
    SelectSeq(get_all_visits(f),
              LAMBDA v : "patient_id" \in DOMAIN v /\ v.patient_id = patient_id)

\* the text on_checkin_patient_select builds from a row of the check-in tree:
\* the characters of the id, " - ", the name
selected_patient_text(patient) == patient.id \o Sep \o <<patient.name>>

InitPatients ==
    /\ file = EmptyFile
    /\ patients = EmptyFile
    /\ now = [day |-> 1, secs |-> 32700]
    /\ priority_tree = <<>>
    /\ last = [op |-> "init", id |-> NoId, data |-> NoData, ret |-> TRUE, wrote |-> FALSE]
    /\ issued = {}
    /\ stamps = {}
    /\ ui = NoWindow

\* the patient form's Add Patient
RegisterPatient ==
    /\ Len(load_data(patients)) < MaxPatients
    /\ generate_id_loop(0, load_data(patients), PAT) < MaxId
    /\ \E outcome \in WriteOutcomes :
           LET r == add_patient(patients, [name |-> "Ravi"], now, outcome)
           IN  /\ patients' = r.file
               /\ last' = [op |-> "add_patient", id |-> r.id, data |-> NoData,
                           ret |-> r.ret, wrote |-> r.wrote]
    /\ UNCHANGED <<file, now, priority_tree, issued, stamps, ui>>

\* the patient form's Delete Patient (confirmed) on a listed patient
RemovePatient ==
    /\ \E i \in 1..Len(load_data(patients)), outcome \in WriteOutcomes :
           LET r == delete_patient(patients, load_data(patients)[i].id, outcome)
           IN  /\ patients' = r.file
               /\ last' = [op |-> "delete_patient", id |-> load_data(patients)[i].id,
                           data |-> NoData, ret |-> r.ret, wrote |-> r.wrote]
    /\ UNCHANGED <<file, now, priority_tree, issued, stamps, ui>>

\* quick_checkin of a patient picked in the check-in tree; on success the queue
\* is refreshed
PatientCheckin ==
    /\ Len(get_all_visits(file)) < MaxVisits
    /\ generate_id_loop(0, get_all_visits(file), OPD) < MaxId
    /\ \E i \in 1..Len(load_data(patients)), outcome \in WriteOutcomes :
           LET text == selected_patient_text(load_data(patients)[i])
               r == add_visit(file, quick_checkin_data(text, "Normal", "fever"),
                              now, now, outcome)
           IN  /\ file' = r.file
               /\ priority_tree' = IF r.ret
                                   THEN refresh_queue(r.file, now, now).priority_tree
                                   ELSE priority_tree
               /\ last' = [op |-> "quick_checkin", id |-> r.id, data |-> NoData,
                           ret |-> r.ret, wrote |-> r.wrote]
               /\ issued' = IF r.ret THEN issued \cup {r.id} ELSE issued
               /\ stamps' = IF r.ret THEN stamps \cup {now.secs} ELSE stamps
    /\ UNCHANGED <<now, ui, patients>>

NextPatients == RegisterPatient \/ RemovePatient \/ PatientCheckin \/ LoadPriorityQueue

SpecPatients == InitPatients /\ [][NextPatients]_vars

----------------------------------------------------------------------------
\* refresh_queue around midnight, on stores of visits of every status

\* the statuses of the combobox, an empty one and a record without the key,
\* each on the first and on the second day
CountVisits ==
    [status : {"Waiting", "In Progress", "Completed", "Cancelled", "", Missing},
     visit_date : 1..2]

count_record(c, n) ==
    dict_update([id |-> OPD \o fmt03d(n), patient_id |-> "PAT001",
                 visit_type |-> "OPD Consultation", priority |-> "Normal",
                 chief_complaint |-> "fever", visit_date |-> c.visit_date,
                 visit_time |-> T0945],
                IF c.status = Missing THEN <<>> ELSE [status |-> c.status])

CountStores == UNION {[1..n -> CountVisits] : n \in 0..MaxQueue}

\* 23:59:59
LastSecond == 86399

InitCount ==
    /\ \E cs \in CountStores :
          /\ file = [valid |-> TRUE, records |-> [n \in DOMAIN cs |-> count_record(cs[n], n)]]
          /\ issued = {OPD \o fmt03d(n) : n \in DOMAIN cs}
    /\ stamps = {}
    /\ now = [day |-> 1, secs |-> LastSecond]
    /\ ui = OPDUI(file, now)
    /\ patients = NoPatients
    /\ priority_tree = refresh_queue(file, now, now).priority_tree
    /\ last = [op |-> "init", id |-> NoId, data |-> [today |-> strftime_date(now)],
               ret |-> TRUE, wrote |-> FALSE]

\* the Refresh Queue button: refresh_queue reads the clock for the counters,
\* load_priority_queue reads it again, within the same second or after the day
\* has turned; last.data keeps the date of the first read
RefreshQueueAt ==
    \E t2 \in {now} \cup {[day |-> now.day + 1, secs |-> 0]} :
        LET r == refresh_queue(file, now, t2)
        IN  /\ t2.day <= MaxDay
            /\ file' = r.file
            /\ now' = t2
            /\ priority_tree' = r.priority_tree
            /\ ui' = [ui EXCEPT !.counts = counters(r)]
            /\ last' = [op |-> "refresh_queue", id |-> NoId,
                        data |-> [today |-> strftime_date(now)], ret |-> TRUE,
                        wrote |-> FALSE]
            /\ UNCHANGED <<issued, stamps, patients>>

NextCount == RefreshQueueAt

SpecCount == InitCount /\ [][NextCount]_vars

----------------------------------------------------------------------------
\* add_visit around midnight, on files json.load accepts and on files it rejects
\*
\* A file with valid FALSE is one load_data answers with []: it is missing or cut
\* short (no records), or its text is damaged somewhere and still holds records.

StampRecords ==
    {[id |-> OPD \o fmt03d(n), patient_id |-> "PAT001", status |-> st, visit_date |-> 1,
      visit_time |-> T0945] : n \in 1..2, st \in {"Waiting", "Completed"}}

StampStores == UNION {[1..n -> StampRecords] : n \in 0..MaxGenLen}

\* the second after t
next_second(t) ==
    IF t.secs = LastSecond THEN [day |-> t.day + 1, secs |-> 0]
    ELSE [day |-> t.day, secs |-> t.secs + 1]

\* the second clock read of add_visit: within the same second as the first, or
\* in the next
LaterReads == {now, next_second(now)}

InitStamp ==
    /\ file \in [valid : BOOLEAN, records : StampStores]
    /\ now \in [day : {1}, secs : {32700, LastSecond}]
    /\ priority_tree = <<>>
    /\ last = [op |-> "init", id |-> NoId, data |-> NoData, ret |-> TRUE, wrote |-> FALSE]
    /\ issued = {}
    /\ stamps = {}
    /\ ui = NoWindow
    /\ patients = NoPatients

StampAdd ==
    /\ last.op = "init"
    /\ AddVisit(QuickCheckinData({"Normal"}), LaterReads)
    /\ UNCHANGED <<priority_tree, ui, patients>>

NextStamp == StampAdd

SpecStamp == InitStamp /\ [][NextStamp]_vars

----------------------------------------------------------------------------
\* Properties of the repository (Spec)

Records == get_all_visits(file)

RecordsAfter == get_all_visits(file')

HasId(visits, id) == \E i \in 1..Len(visits) : visits[i].id = id

IdsOf(visits) == [i \in 1..Len(visits) |-> visits[i].id]

\* the number an id OPDnnn carries
IdNum(id) == int(SubSeq(id, Len(OPD) + 1, Len(id)))

\* s is t with some elements left out, the others in their order
IsSubSeq(s, t) ==
    \E f \in [1..Len(s) -> 1..Len(t)] :
        /\ \A i \in 1..Len(s) : s[i] = t[f[i]]
        /\ \A i, j \in 1..Len(s) : i < j => f[i] < f[j]

\* C1: the id a successful add_visit assigns, to a store file that loads, was
\* assigned by no earlier add_visit and is greater than every id assigned before,
\* also after deletions.
C1_IdsNeverReused ==
    [][(last'.op = "add_visit" /\ last'.ret /\ file.valid) =>
          /\ last'.id \notin issued
          /\ \A i \in issued : IdNum(i) < IdNum(last'.id)]_vars

\* C3: no two records of the store have the same id.
C3_UniqueIds ==
    \A i, j \in 1..Len(Records) : i # j => Records[i].id # Records[j].id

\* two records, the older ones deleted, the last just added
C3_Witness ==
    /\ Len(Records) = 2
    /\ last.op = "add_visit" /\ last.ret
    /\ Records[1].id # OPD \o <<"0", "0", "1">>
    /\ Records[2].id = last.id

\* C4: update_visit with an id no record has returns false, writes nothing and
\* leaves the file as it was.
C4_UpdateMissing ==
    [][(last'.op = "update_visit" /\ ~HasId(Records, last'.id)) =>
          (~last'.ret /\ ~last'.wrote /\ file' = file)]_vars

\* an update that found nothing in a store that is not empty
C4_Witness ==
    /\ last.op = "update_visit" /\ ~last.ret /\ ~last.wrote
    /\ Len(Records) > 0
    /\ ~HasId(Records, last.id)

\* C5: a successful update_visit leaves the number of records, every record with
\* another id, and every field of the record it names that the update does not
\* name; that record's fields are its old ones and the named ones, with the
\* values given.
C5_UpdateFrame ==
    [][(last'.op = "update_visit" /\ last'.ret) =>
          /\ Len(RecordsAfter) = Len(Records)
          /\ \A i \in 1..Len(Records) :
                IF Records[i].id # last'.id
                THEN RecordsAfter[i] = Records[i]
                ELSE /\ DOMAIN RecordsAfter[i] = (DOMAIN Records[i]) \cup (DOMAIN last'.data)
                     /\ \A k \in (DOMAIN Records[i]) \ (DOMAIN last'.data) :
                           RecordsAfter[i][k] = Records[i][k]
                     /\ \A k \in DOMAIN last'.data : RecordsAfter[i][k] = last'.data[k]]_vars

\* a status-only update of the second of two records, the first one left waiting
C5_Witness ==
    /\ last.op = "update_visit" /\ last.ret
    /\ last.data = [status |-> "Completed"]
    /\ Len(Records) = 2
    /\ Records[2].id = last.id
    /\ Records[2].status = "Completed" /\ Records[2].priority = "Normal"
    /\ Records[1].status = "Waiting"

\* C6: a delete removes the record with the id and keeps the others in order;
\* with no such record it changes nothing and reports failure.
C6_DeleteReportsAbsent ==
    [][last'.op = "delete_visit" =>
          IF HasId(Records, last'.id)
          THEN last'.ret =>
                  /\ ~HasId(RecordsAfter, last'.id)
                  /\ RecordsAfter = SelectSeq(Records, LAMBDA v : v.id # last'.id)
          ELSE ~last'.ret /\ RecordsAfter = Records]_vars

\* C7: the store keeps insertion order: a successful add_visit puts the new record
\* after the existing ones, a successful update_visit keeps every id at its
\* position, and any other step leaves the ids that remain in their order.
C7_InsertionOrder ==
    [][IF last'.op = "add_visit" /\ last'.ret
       THEN /\ Len(RecordsAfter) = Len(Records) + 1
            /\ SubSeq(RecordsAfter, 1, Len(Records)) = Records
            /\ RecordsAfter[Len(RecordsAfter)].id = last'.id
       ELSE IF last'.op = "update_visit" /\ last'.ret
       THEN IdsOf(RecordsAfter) = IdsOf(Records)
       ELSE IsSubSeq(IdsOf(RecordsAfter), IdsOf(Records))]_vars

\* the first of two records deleted, the second one left, then a third added after it
C7_Witness ==
    /\ last.op = "add_visit" /\ last.ret
    /\ IdsOf(Records) = <<OPD \o <<"0", "0", "2">>, OPD \o <<"0", "0", "3">>>>

----------------------------------------------------------------------------
\* Properties of generate_id as add_visit uses it (SpecGen)

\* what generate_id parses of an id: what follows the prefix, or the whole id
NumericPart(id) == IF startswith(id, OPD) THEN SubSeq(id, Len(OPD) + 1, Len(id)) ELSE id

NumericSuffixes(visits) ==
    {int(NumericPart(visits[i].id)) :
        i \in {j \in 1..Len(visits) :
                 "id" \in DOMAIN visits[j] /\ IsInt(NumericPart(visits[j].id))}}

SetMax(S) == CHOOSE m \in S : \A x \in S : x <= m

ExpectedNumber(visits) ==
    IF NumericSuffixes(visits) = {} THEN 1 ELSE SetMax(NumericSuffixes(visits)) + 1

\* C2: the id add_visit assigns is OPD followed by the decimal digits, padded with
\* zeros to three, of one more than the greatest numeric suffix in the store, of 1
\* when no id of the store has one; the stored record carries it.
C2_NextId ==
    [][last'.op = "add_visit" =>
          LET digits == SubSeq(last'.id, Len(OPD) + 1, Len(last'.id))
          IN  /\ startswith(last'.id, OPD)
              /\ IsInt(digits)
              /\ int(digits) = ExpectedNumber(Records)
              /\ Len(digits) >= 3
              /\ (Len(digits) > 3 => digits[1] # "0")
              /\ (last'.ret => RecordsAfter[Len(RecordsAfter)].id = last'.id)]_vars

\* a store of OPDA1 and OPD010: the add assigns OPD011
C2_Witness ==
    /\ last.op = "add_visit" /\ last.ret
    /\ Len(Records) = 3
    /\ \A i \in 1..3 : "id" \in DOMAIN Records[i]
    /\ Records[1].id = OPD \o A1
    /\ Records[2].id = OPD \o <<"0", "1", "0">>
    /\ Records[3].id = OPD \o <<"0", "1", "1">>

----------------------------------------------------------------------------
\* Properties of the priority queue (SpecQueue)

Loaded == last.op = "load_priority_queue"

RankOf(p) ==
    CASE p = "Emergency" -> 1 [] p = "High" -> 2 [] p = "Normal" -> 3 [] p = "Low" -> 4

\* the position in the store of the visit a row shows
StoreIndex(row) == CHOOSE i \in 1..Len(Records) : Records[i].id = row.id

VisitOf(row) == Records[StoreIndex(row)]

WaitingToday(v) == v.status = "Waiting" /\ v.visit_date = now.day

\* C8: the queue just loaded has one row for each visit of the store that is Waiting
\* and dated today, and no other row.
C8_QueueMembers ==
    Loaded =>
        /\ \A i \in 1..Len(Records) :
              Cardinality({j \in 1..Len(priority_tree) : priority_tree[j].id = Records[i].id})
                  = IF WaitingToday(Records[i]) THEN 1 ELSE 0
        /\ \A j \in 1..Len(priority_tree) : HasId(Records, priority_tree[j].id)

\* one row, of a store that also holds a completed visit of today, of higher
\* priority, and a waiting visit of another day
C8_Witness ==
    /\ Loaded
    /\ Len(priority_tree) = 1
    /\ \E i \in 1..Len(Records) :
          /\ Records[i].status = "Completed" /\ Records[i].visit_date = now.day
          /\ Records[i].priority = "Emergency"
    /\ \E i \in 1..Len(Records) :
          Records[i].status = "Waiting" /\ Records[i].visit_date # now.day

\* C9: of two adjacent rows of the queue just loaded, the first has the lower rank,
\* or the same rank and a visit_time string that is not greater; and of two times
\* add_visit stamped, the earlier one has the smaller string.
C9_QueueOrder ==
    /\ Loaded =>
          \A j \in 1..(Len(priority_tree) - 1) :
              LET a == VisitOf(priority_tree[j])
                  b == VisitOf(priority_tree[j + 1])
              IN  \/ RankOf(a.priority) < RankOf(b.priority)
                  \/ /\ RankOf(a.priority) = RankOf(b.priority)
                     /\ ~StrLess(b.visit_time, a.visit_time)
    /\ \A s, t \in stamps : s < t <=> StrLess(strftime_time(s), strftime_time(t))

\* three rows: the last check-in first by its priority, then two of one priority
\* with the later check-in before the earlier one, by its time
C9_Witness ==
    /\ Loaded
    /\ Len(priority_tree) = 3
    /\ StoreIndex(priority_tree[1]) = 3
    /\ StoreIndex(priority_tree[2]) = 2
    /\ StoreIndex(priority_tree[3]) = 1
    /\ VisitOf(priority_tree[2]).priority = VisitOf(priority_tree[3]).priority
    /\ StrLess(VisitOf(priority_tree[2]).visit_time, VisitOf(priority_tree[3]).visit_time)

\* C10: two rows of the queue just loaded whose visits have the same rank and the
\* same visit_time are in the order of their visits in the store.
C10_StableTies ==
    Loaded =>
        \A i, j \in 1..Len(priority_tree) :
            LET a == VisitOf(priority_tree[i])
                b == VisitOf(priority_tree[j])
            IN  (/\ i < j
                 /\ RankOf(a.priority) = RankOf(b.priority)
                 /\ a.visit_time = b.visit_time)
                => StoreIndex(priority_tree[i]) < StoreIndex(priority_tree[j])

\* two visits of one priority and one time, with a visit of higher priority checked
\* in between them
C10_Witness ==
    /\ Loaded
    /\ Len(priority_tree) = 3
    /\ StoreIndex(priority_tree[1]) = 2
    /\ StoreIndex(priority_tree[2]) = 1
    /\ StoreIndex(priority_tree[3]) = 3
    /\ VisitOf(priority_tree[2]).priority = VisitOf(priority_tree[3]).priority
    /\ VisitOf(priority_tree[2]).visit_time = VisitOf(priority_tree[3]).visit_time

----------------------------------------------------------------------------
\* Properties of the queue refresh (SpecWait)

\* the queue on display was computed at the time the clock reads now
Fresh == last.op = "refresh_queue"

Unranked(v) == "priority" \notin DOMAIN v \/ v.priority \notin Priorities

Rank3(v) == IF Unranked(v) THEN 3 ELSE RankOf(v.priority)

TimeOf(v) == IF "visit_time" \in DOMAIN v THEN v.visit_time ELSE <<>>

\* C11: a row whose visit has no priority, an empty one or one outside the four
\* stands where rank 3 puts it: of two rows of which one is such a visit, the
\* earlier has the lower rank, or the same rank and a visit_time that is not greater.
C11_UnknownAsNormal ==
    \A i, j \in 1..Len(priority_tree) :
        LET a == VisitOf(priority_tree[i])
            b == VisitOf(priority_tree[j])
        IN  (i < j /\ (Unranked(a) \/ Unranked(b))) =>
                \/ Rank3(a) < Rank3(b)
                \/ Rank3(a) = Rank3(b) /\ ~StrLess(TimeOf(b), TimeOf(a))

\* a visit without priority, stored last, before a later Normal visit and a Low one
C11_Witness ==
    /\ Fresh
    /\ Len(priority_tree) = 3
    /\ StoreIndex(priority_tree[1]) = 3
    /\ "priority" \notin DOMAIN VisitOf(priority_tree[1])
    /\ Rank3(VisitOf(priority_tree[2])) = 3 /\ ~Unranked(VisitOf(priority_tree[2]))
    /\ StrLess(TimeOf(VisitOf(priority_tree[1])), TimeOf(VisitOf(priority_tree[2])))
    /\ Rank3(VisitOf(priority_tree[3])) = 4

\* C12: the wait a row shows for a visit whose visit_time parses is the floor of
\* the seconds from the check-in to now over 60, also when the check-in is later
\* than now.
C12_WaitFloor ==
    Fresh =>
        \A j \in 1..Len(priority_tree) :
            LET v == VisitOf(priority_tree[j])
            IN  ("visit_time" \in DOMAIN v /\ v.visit_time \in {T0945, T100030}) =>
                    priority_tree[j].wait =
                        [text |-> "min",
                         minutes |-> (now.secs - strptime_secs(v.visit_time)) \div 60]

\* C13: a row whose visit has no visit_time, an empty one or one that is no time
\* shows N/A, and the queue still has one row for each waiting visit of today,
\* numbered from 1.
C13_NoTimeNA ==
    Fresh =>
        /\ Len(priority_tree) =
              Cardinality({i \in 1..Len(Records) : WaitingToday(Records[i])})
        /\ \A j \in 1..Len(priority_tree) :
              /\ priority_tree[j].position = j
              /\ TimeOf(VisitOf(priority_tree[j])) \in {<<>>, T999999}
                    => priority_tree[j].wait.text = "N/A"

\* a visit without visit_time, one with 99:99:99 and one that has waited 15 minutes
C13_Witness ==
    /\ Fresh
    /\ Len(priority_tree) = 3
    /\ "visit_time" \notin DOMAIN VisitOf(priority_tree[1])
    /\ priority_tree[1].wait = NA
    /\ priority_tree[2].wait = [text |-> "min", minutes |-> 15]
    /\ VisitOf(priority_tree[3]).visit_time = T999999
    /\ priority_tree[3].wait = NA

RowsNoWait(tree) ==
    [j \in 1..Len(tree) |->
        [position |-> tree[j].position, patient |-> tree[j].patient,
         priority |-> tree[j].priority, chief_complaint |-> tree[j].chief_complaint,
         id |-> tree[j].id]]

\* C14 as stated: a refresh of the queue, the store not written since the queue on
\* display was computed, yields the rows on display, also after the clock advanced.
C14_SameRows ==
    [][last'.op = "refresh_queue" => priority_tree' = priority_tree]_vars

\* C14 amended: such a refresh yields the same visits at the same positions with
\* the same fields other than the wait when it reads the same date as the one
\* before, and the same waits too when the clock has not advanced.
C14_SameRowsSameDay ==
    [][last'.op = "refresh_queue" =>
          /\ last.data.today = strftime_date(now) =>
                 RowsNoWait(priority_tree') = RowsNoWait(priority_tree)
          /\ last.op # "tick" => priority_tree' = priority_tree]_vars

\* a refresh a minute and a half after the one before: the same rows, another wait
C14_Witness ==
    /\ last.op = "refresh_queue"
    /\ now = [day |-> 1, secs |-> 36090]
    /\ Len(priority_tree) = 2
    /\ priority_tree[1].wait = [text |-> "min", minutes |-> 16]
    /\ priority_tree[2].wait = [text |-> "min", minutes |-> 1]

\* C15: a refresh of the queue leaves the store file, and so the stored list and
\* its order, as they were.
C15_RefreshReadsOnly ==
    [][last'.op = "refresh_queue" => (file' = file /\ RecordsAfter = Records)]_vars

\* a refresh whose queue has the stored visits in another order
C15_Witness ==
    /\ last.op = "refresh_queue"
    /\ Len(priority_tree) = 3
    /\ StoreIndex(priority_tree[1]) = 3
    /\ StoreIndex(priority_tree[3]) = 1
    /\ IdsOf(Records) = <<OPD \o fmt03d(1), OPD \o fmt03d(2), OPD \o fmt03d(3)>>

----------------------------------------------------------------------------
\* Properties of the OPD window (SpecUI)

StatusOf(visits, id) == visits[find_visit(visits, id)].status

\* C16: the visit a successful quick check-in or Save Visit has just stored has
\* status Waiting.
C16_CheckinWaiting ==
    [][(last'.op \in {"quick_checkin", "save_visit"} /\ last'.ret) =>
          RecordsAfter[Len(RecordsAfter)].status = "Waiting"]_vars

\* C17: a stored visit whose status is Completed or Cancelled keeps that status.
C17_Terminal ==
    [][\A i \in 1..Len(Records) :
          (Records[i].status \in {"Completed", "Cancelled"}
              /\ HasId(RecordsAfter, Records[i].id))
          => StatusOf(RecordsAfter, Records[i].id) = Records[i].status]_vars

\* C18: a change of the status of a stored visit is one of Waiting -> In Progress,
\* In Progress -> Completed, Waiting -> Cancelled, In Progress -> Cancelled.
C18_Transitions ==
    [][\A i \in 1..Len(Records) :
          (HasId(RecordsAfter, Records[i].id)
              /\ StatusOf(RecordsAfter, Records[i].id) # Records[i].status)
          => <<Records[i].status, StatusOf(RecordsAfter, Records[i].id)>> \in
                {<<"Waiting", "In Progress">>, <<"In Progress", "Completed">>,
                 <<"Waiting", "Cancelled">>, <<"In Progress", "Cancelled">>}]_vars

----------------------------------------------------------------------------
\* Properties of a failed write (Spec)

\* C19: an add_visit whose write fails returns False, get_all_visits returns the
\* list it returned before the call, and the next id is still the failed one's.
C19_FailedAddNotCommitted ==
    [][(last'.op = "add_visit" /\ ~last'.ret) =>
          /\ RecordsAfter = Records
          /\ generate_id(RecordsAfter, OPD) = last'.id]_vars

----------------------------------------------------------------------------
\* Properties of the JSON round trip (SpecRound)

WellFormed(f) == f.valid /\ json_load(f.text).ok

----------------------------------------------------------------------------
\* Properties of patients and their visits (SpecPatients)

Unknown == <<"Unknown">>

\* C21: in a queue just loaded, the row of a visit whose patient_id no stored
\* patient has shows 'Unknown' as the patient.
C21_UnknownPatient ==
    last.op = "load_priority_queue" =>
        \A i \in 1..Len(priority_tree) :
            get_patient_by_id(patients,
                Records[find_visit(Records, priority_tree[i].id)].patient_id) = PyNone
            => priority_tree[i].patient = Unknown

\* C29: the patient a successful add_patient has just registered has no visits.
C29_NewPatientNoVisits ==
    [][(last'.op = "add_patient" /\ last'.ret) =>
          get_visits_by_patient(file', last'.id) = <<>>]_vars

----------------------------------------------------------------------------
\* Properties of the queue counters (SpecCount)

\* the stored visits of the date refresh_queue read
OfToday == {i \in 1..Len(Records) : dict_get(Records[i], "visit_date", 0) = last.data.today}

WithStatus(status) == {i \in OfToday : dict_get(Records[i], "status", None) = status}

\* C25: after refresh_queue each counter is the number of stored visits of today
\* with exactly that status, and the three sum to at most the number of today's
\* visits.
C25_Counters ==
    last.op = "refresh_queue" =>
        /\ ui.counts.waiting = Cardinality(WithStatus("Waiting"))
        /\ ui.counts.inprogress = Cardinality(WithStatus("In Progress"))
        /\ ui.counts.completed = Cardinality(WithStatus("Completed"))
        /\ ui.counts.waiting + ui.counts.inprogress + ui.counts.completed
              <= Cardinality(OfToday)

\* counters refreshed on a store that holds, for today, a cancelled visit and one
\* counted, and a waiting visit of another day
C25_Witness ==
    /\ last.op = "refresh_queue"
    /\ WithStatus("Cancelled") # {}
    /\ ui.counts.waiting + ui.counts.inprogress + ui.counts.completed = 1
    /\ \E i \in 1..Len(Records) : i \notin OfToday /\ Records[i].status = "Waiting"

\* C26: after refresh_queue the Waiting counter is the number of rows of the queue.
C26_CountIsRows ==
    last.op = "refresh_queue" => ui.counts.waiting = Len(priority_tree)

----------------------------------------------------------------------------
\* Properties of add_visit (SpecStamp)

\* instant a is not later than instant b
NotLater(a, b) == a.day < b.day \/ (a.day = b.day /\ a.secs <= b.secs)

\* C27: the visit_date and visit_time a successful add_visit stored are the date
\* and the time of day of one instant between the first clock read of the call
\* and the last.
C27_OneInstant ==
    [][(last'.op = "add_visit" /\ last'.ret) =>
          LET visit == RecordsAfter[Len(RecordsAfter)]
              instant == [day |-> visit.visit_date, secs |-> strptime_secs(visit.visit_time)]
          IN  NotLater(now, instant) /\ NotLater(instant, now')]_vars

\* C28: after a successful add_visit the file holds every visit it held before
\* the call, and the new one.
C28_AddKeepsVisits ==
    [][(last'.op = "add_visit" /\ last'.ret) =>
          /\ \A i \in 1..Len(file.records) :
                \E j \in 1..Len(RecordsAfter) : RecordsAfter[j] = file.records[i]
          /\ HasId(RecordsAfter, last'.id)]_vars

----------------------------------------------------------------------------
\* Properties of the handlers that change a stored visit (SpecDesk)

StatusHandlers == {"mark_visit_complete", "cancel_visit", "move_to_inprogress"}

TargetStatus ==
    [op \in StatusHandlers |->
        IF op = "mark_visit_complete" THEN "Completed"
        ELSE IF op = "cancel_visit" THEN "Cancelled" ELSE "In Progress"]

\* C22: Move to In Progress, Mark Complete, Cancel and the form's Update Visit
\* leave every stored visit at its position with its id, its visit_date and its
\* visit_time.
C22_StampsFixed ==
    [][(last'.op \in StatusHandlers \cup {"form_update_visit"}) =>
          /\ last'.ret => Len(RecordsAfter) = Len(Records)
          /\ \A i \in 1..Len(RecordsAfter) :
                /\ i <= Len(Records)
                /\ dict_get(RecordsAfter[i], "id", NoId) = Records[i].id
                /\ dict_get(RecordsAfter[i], "visit_date", 0) = Records[i].visit_date
                /\ dict_get(RecordsAfter[i], "visit_time", <<>>) = Records[i].visit_time]_vars

\* Update Visit has rewritten the second of two visits from the form
C22_Witness ==
    /\ last.op = "form_update_visit" /\ last.ret
    /\ Len(Records) = 2
    /\ last.id = Records[2].id
    /\ Records[2].visit_date = 1 /\ Records[2].visit_time = strftime_time(32400)

\* C23: a Move to In Progress that sets the status is applied to a stored visit
\* whose status is Waiting.
C23_MoveFromWaiting ==
    [][(last'.op = "move_to_inprogress" /\ last'.ret) =>
          /\ HasId(Records, last'.id)
          /\ StatusOf(Records, last'.id) = "Waiting"]_vars

\* a visit was moved to In Progress from a queue refreshed after another handler
\* had changed the store: the other visit is no longer waiting
C23_Witness ==
    /\ last.op = "move_to_inprogress" /\ last.ret
    /\ Len(Records) = 2
    /\ StatusOf(Records, last.id) = "In Progress"
    /\ \E i \in 1..2 : Records[i].id # last.id /\ Records[i].status = "Cancelled"
    /\ priority_tree = <<>>

\* C24: Mark Complete, Cancel and Move to In Progress change the status of the
\* selected visit and nothing else: not another field of it, not another visit,
\* not the number or order of the visits, not the patients.
C24_StatusOnly ==
    [][(last'.op \in StatusHandlers) =>
          /\ Len(RecordsAfter) = Len(Records)
          /\ \A i \in 1..Len(Records) :
                IF i = find_visit(Records, last'.id)
                THEN /\ DOMAIN RecordsAfter[i] = (DOMAIN Records[i]) \cup {"status"}
                     /\ \A k \in (DOMAIN Records[i]) \ {"status"} :
                           RecordsAfter[i][k] = Records[i][k]
                     /\ RecordsAfter[i].status \in {Records[i].status, TargetStatus[last'.op]}
                ELSE RecordsAfter[i] = Records[i]
          /\ patients' = patients]_vars

\* C30: while current_visit_id is set, the store holds a visit with that id.
C30_CurrentVisitStored ==
    ui.current_visit_id # NoId => HasId(Records, ui.current_visit_id)

====
